---- MODULE Spec2Model ----
(***************************************************************************)
(* State-machine model of owapi/interface.py: the cache-aside fetch        *)
(* get_page_body, the two page loaders, update_user and the region loop    *)
(* region_helper.  Every await of the source is a step of the model.       *)
(***************************************************************************)
EXTENDS Integers, Sequences, FiniteSets, TLC

(***************************************************************************)
(* Python values are tagged tuples, so that None, a str and a parsed       *)
(* element are three different values that can be compared.                *)
(***************************************************************************)
None == <<"NoneType">>
Str(s) == <<"str", s>>
IsStr(v) == v[1] = "str"
Pending == <<"pending">>

\* str.format of a value: the text of a str, "None" for None
Fmt(v) == IF IsStr(v) THEN v[2] ELSE "None"

(***************************************************************************)
(* Bounds of the model.                                                    *)
(***************************************************************************)
MaxCalls == 2
MaxTicks == 1

Procs == {1, 2}

(***************************************************************************)
(* Constants of interface.py.  A URL is the sequence of its pieces; a      *)
(* battletag is the sequence of its characters.                            *)
(***************************************************************************)
B_BASE_URL == "https://playoverwatch.com/en-gb/"
MO_BASE_URL == "https://masteroverwatch.com/"
MO_PROFILE_URL == <<MO_BASE_URL, "profile/pc/">>
B_PAGE_URL(reg, btag) == <<B_BASE_URL, "career/pc/", Fmt(reg), "/">> \o btag
MO_PAGE_URL(reg, btag) == MO_PROFILE_URL \o <<Fmt(reg), "/">> \o btag
MO_UPDATE_URL(reg, btag) == MO_PAGE_URL(reg, btag) \o <<"/update">>
DefaultCacheTime == 300
NOT_FOUND_MESSAGE == "We couldn't find a player with that name."

\* battletag.replace("#", "-")
Replace(btag) == [k \in 1..Len(btag) |-> IF btag[k] = "#" THEN "-" ELSE btag[k]]

(***************************************************************************)
(* Inputs: battletags, regions, extra suffixes, response bodies.           *)
(***************************************************************************)
Battletags == { <<"F", "o", "o", "#", "1", "2", "3", "4">> }
DefaultRegions == <<Str("eu"), Str("us"), Str("kr")>>
RegionArgs == {None, Str("eu"), Str("us"), Str("kr")}
Extras == { <<>>, <<"/heroes">> }

HTML_PAGE == "<html><body>career</body></html>"
JSON_NOT_FOUND == "{\"status\": \"error\", \"message\": \"We couldn't find a player with that name.\"}"
JSON_RATE_LIMITED == "{\"status\": \"error\", \"message\": \"rate limited\"}"
JSON_SUCCESS == "{\"status\": \"success\"}"
JSON_EMPTY == "{}"
JSON_NO_MESSAGE == "{\"status\": \"error\"}"
Bodies == {HTML_PAGE, JSON_NOT_FOUND, JSON_RATE_LIMITED, JSON_SUCCESS, JSON_EMPTY,
           JSON_NO_MESSAGE}
Statuses == {200, 404}
\* what the sites answer: JSON (or an error page) on the update endpoint, a
\* page elsewhere
ResponseBodies(u) ==
    IF Len(u) > 0 /\ u[Len(u)] = "/update" THEN Bodies ELSE {HTML_PAGE}

FetchURLs == { B_PAGE_URL(Str("eu"), <<"F", "o", "o", "-", "1", "2", "3", "4">>),
               MO_UPDATE_URL(Str("eu"), <<"F", "o", "o", "-", "1", "2", "3", "4">>) }
ShortTTL == 2
TTLs == {0, ShortTTL, DefaultCacheTime}

(***************************************************************************)
(* Pure functions of the source.                                           *)
(***************************************************************************)
Returned(v) == <<"return", v>>
Raised(e) == <<"raise", e>>
IsRaised(r) == r[1] = "raise"

\* _real_get_body: None on a status other than 200, else the decoded body
real_get_body(status, body) ==
    IF status # 200 THEN None ELSE Str(body)

\* _parse_page: etree.HTML(content); lxml refuses anything that is not a
\* string with ValueError("can only parse strings")
parse_page(content) ==
    IF IsStr(content) THEN Returned(<<"Element", content[2]>>)
    ELSE Raised("ValueError")

\* json.loads on the bodies of the model: TypeError on None, ValueError on
\* text that is no JSON, else the decoded object
json_loads(body) ==
    IF ~IsStr(body) THEN Raised("TypeError")
    ELSE CASE body[2] = JSON_NOT_FOUND ->
                Returned([status |-> "error", message |-> NOT_FOUND_MESSAGE])
           [] body[2] = JSON_RATE_LIMITED ->
                Returned([status |-> "error", message |-> "rate limited"])
           [] body[2] = JSON_SUCCESS ->
                Returned([status |-> "success"])
           [] body[2] = JSON_EMPTY ->
                Returned(<<>>)
           [] body[2] = JSON_NO_MESSAGE ->
                Returned([status |-> "error"])
           [] OTHER -> Raised("ValueError")

\* mutants of update_user: every error is a success; every error is
\* "not found"; a body that does not decode is "not found"
update_user_lax(body) ==
    LET loaded == json_loads(body) IN
    IF IsRaised(loaded) THEN loaded ELSE Returned(TRUE)
update_user_strict(body) ==
    LET loaded == json_loads(body) IN
    IF IsRaised(loaded) THEN loaded
    ELSE LET data == loaded[2] IN
         IF "status" \notin DOMAIN data THEN Raised("KeyError")
         ELSE Returned(data["status"] # "error")
update_user_swallow(body) ==
    LET loaded == json_loads(body) IN
    IF IsRaised(loaded) THEN Returned(FALSE)
    ELSE LET data == loaded[2] IN
         IF "status" \notin DOMAIN data THEN Raised("KeyError")
         ELSE IF data["status"] = "error"
              THEN IF "message" \notin DOMAIN data THEN Raised("KeyError")
                   ELSE Returned(data["message"] # NOT_FOUND_MESSAGE)
              ELSE Returned(TRUE)

\* update_user, from the body its get_page_body call returned
update_user(body) ==
    LET loaded == json_loads(body) IN
    IF IsRaised(loaded) THEN loaded
    ELSE LET data == loaded[2] IN
         IF "status" \notin DOMAIN data THEN Raised("KeyError")
         ELSE IF data["status"] = "error"
              THEN IF "message" \notin DOMAIN data THEN Raised("KeyError")
                   ELSE IF data["message"] = NOT_FOUND_MESSAGE
                        THEN Returned(FALSE)
                        ELSE Returned(TRUE)
              ELSE Returned(TRUE)

\* mutants of candidates: another order; the region argument ignored
candidates_reordered(rg) ==
    IF rg = None THEN <<Str("us"), Str("eu"), Str("kr")>> ELSE <<rg>>
candidates_ignore(rg) == DefaultRegions

\* the candidate list of region_helper
candidates(rg) == IF rg = None THEN DefaultRegions ELSE <<rg>>

(***************************************************************************)
(* util.with_cache and the cache store behind it: an entry is served only  *)
(* before expires_at; a result of None is not stored.                      *)
(***************************************************************************)
cache_live(c, key, t) == key \in DOMAIN c /\ t < c[key].expires_at

cache_put(c, key, value, ttl, t) ==
    [k \in DOMAIN c \cup {key} |->
        IF k = key THEN [value |-> value, expires_at |-> t + ttl] ELSE c[k]]

with_cache_store(c, key, res, expires, t) ==
    IF res = None THEN c ELSE cache_put(c, key, res, expires, t)

cache_purge(c, t) == [k \in {x \in DOMAIN c : t < c[x].expires_at} |-> c[k]]

(***************************************************************************)
(* State.                                                                  *)
(***************************************************************************)
VARIABLES
    cache,       \* the shared cache store: URL -> [value, expires_at]
    now,         \* the clock, in seconds
    ticks,       \* clock steps taken
    sessions,    \* aiohttp sessions opened and not closed
    calls,       \* top-level calls started
    pc,          \* per caller: idle, blizz, update, page, fetch, returned, raised
    stage,       \* per caller: call, get (awaiting session.get), read (awaiting
                 \* req.read()), release (awaiting the release of a non-200
                 \* response), ret, parse, -
    battletag, region, extra,   \* arguments of region_helper
    reg_l, idx,  \* the candidate list and the position of `reg` in it
    url, cache_time, page_body, \* the current get_page_body call
    result,      \* what the top-level call returned or raised
    reqs,        \* log of the get_page_body calls of the current top-level call
    prev,        \* log of the previous top-level get_page_body call
    last200      \* history: URL -> when the body of a 200 answer was last stored

vars == <<cache, now, ticks, sessions, calls, pc, stage, battletag, region, extra,
          reg_l, idx, url, cache_time, page_body, result, reqs, prev, last200>>

clock == <<now, ticks>>
args == <<battletag, region, extra, reg_l>>

Init ==
    /\ cache = <<>>
    /\ now = 0
    /\ ticks = 0
    /\ sessions = 0
    /\ calls = 0
    /\ pc = [p \in Procs |-> "idle"]
    /\ stage = [p \in Procs |-> "-"]
    /\ battletag = [p \in Procs |-> <<>>]
    /\ region = [p \in Procs |-> None]
    /\ extra = [p \in Procs |-> <<>>]
    /\ reg_l = [p \in Procs |-> <<>>]
    /\ idx = [p \in Procs |-> 0]
    /\ url = [p \in Procs |-> <<>>]
    /\ cache_time = [p \in Procs |-> 0]
    /\ page_body = [p \in Procs |-> None]
    /\ result = [p \in Procs |-> None]
    /\ reqs = [p \in Procs |-> <<>>]
    /\ prev = [p \in Procs |-> <<>>]
    /\ last200 = <<>>

reg(p) == reg_l[p][idx[p]]
Free(p) == pc[p] \in {"idle", "returned", "raised"}

\* the history with a stored 200 answer for key at time t recorded
answered(h, key, t) == [k \in DOMAIN h \cup {key} |-> IF k = key THEN t ELSE h[k]]

\* the log with the outcome of its last entry filled in
WithOut(log, o) == [log EXCEPT ![Len(log)].out = o]

(***************************************************************************)
(* get_page_body.  The call opens a session and looks the URL up; a live   *)
(* entry is returned and the session closed, otherwise the GET is issued   *)
(* and the caller awaits the response.                                     *)
(***************************************************************************)
get_page_body(p, log, fn, rg, u, ttl) ==
    LET hit == cache_live(cache, u, now)
        got == IF hit THEN cache[u].value ELSE Pending
    IN  /\ url' = [url EXCEPT ![p] = u]
        /\ cache_time' = [cache_time EXCEPT ![p] = ttl]
        /\ page_body' = [page_body EXCEPT ![p] = got]
        /\ stage' = [stage EXCEPT ![p] = IF hit THEN "ret" ELSE "get"]
        /\ sessions' = IF hit THEN sessions ELSE sessions + 1
        /\ reqs' = [reqs EXCEPT ![p] = Append(log,
                        [fn |-> fn, reg |-> rg, url |-> u, ttl |-> ttl, at |-> now,
                         net |-> ~hit, status |-> 0, body |-> got,
                         out |-> "pending",
                         since |-> IF u \in DOMAIN last200 THEN last200[u] ELSE -1])]
        /\ UNCHANGED <<cache, last200>>

\* _real_get_body returns for a response of this status and body: with_cache
\* stores the result under `expires`, session.close(), the result is returned
get_page_body_answered(p, status, body, expires) ==
    /\ LET res == real_get_body(status, body) IN
        /\ cache' = with_cache_store(cache, url[p], res, expires, now)
        /\ page_body' = [page_body EXCEPT ![p] = res]
        /\ reqs' = [reqs EXCEPT ![p][Len(reqs[p])].body = res,
                                 ![p][Len(reqs[p])].status = status]
    /\ sessions' = sessions - 1
    /\ stage' = [stage EXCEPT ![p] = "ret"]
    /\ UNCHANGED <<clock, calls, pc, args, idx, url, cache_time, result, prev>>

\* `async with session.get(url) as req` resumes with the response head: a
\* 200 goes on to await req.read(); any other status leaves the block with
\* `return None`, which awaits the release of the unread response.  Nothing
\* is stored and the session is open in both cases
HttpHead(p, status) ==
    /\ stage[p] = "get"
    /\ stage' = [stage EXCEPT ![p] = IF status = 200 THEN "read" ELSE "release"]
    /\ reqs' = [reqs EXCEPT ![p][Len(reqs[p])].status = status]
    /\ UNCHANGED <<cache, last200, clock, sessions, calls, pc, args, idx, url,
                   cache_time, page_body, result, prev>>

\* the release of the non-200 response, whose body is `body`, is done:
\* _real_get_body returns None, with_cache stores nothing, session.close()
HttpRelease(p, body) ==
    /\ stage[p] = "release"
    /\ get_page_body_answered(p, reqs[p][Len(reqs[p])].status, body, cache_time[p])
    /\ UNCHANGED last200

\* the release of the non-200 response raised: nothing catches it,
\* session.close() is not reached
HttpReleaseError(p) ==
    /\ stage[p] = "release"
    /\ pc' = [pc EXCEPT ![p] = "raised"]
    /\ stage' = [stage EXCEPT ![p] = "-"]
    /\ result' = [result EXCEPT ![p] = Raised("ClientError")]
    /\ reqs' = [reqs EXCEPT ![p] = WithOut(@, "raise")]
    /\ UNCHANGED <<cache, last200, clock, sessions, calls, args, idx, url, cache_time,
                   page_body, prev>>

\* mutant of HttpBody: cache_time does not reach with_cache (expires=0)
HttpBody_expires0(p, body) ==
    /\ stage[p] = "read"
    /\ get_page_body_answered(p, 200, body, 0)
    /\ UNCHANGED last200

\* mutant of HttpBody: an entry already in the store is not overwritten
HttpBody_keepfirst(p, body) ==
    /\ stage[p] = "read"
    /\ LET res == real_get_body(200, body) IN
        /\ cache' = IF url[p] \in DOMAIN cache THEN cache
                    ELSE with_cache_store(cache, url[p], res, cache_time[p], now)
        /\ page_body' = [page_body EXCEPT ![p] = res]
        /\ reqs' = [reqs EXCEPT ![p][Len(reqs[p])].body = res]
    /\ sessions' = sessions - 1
    /\ stage' = [stage EXCEPT ![p] = "ret"]
    /\ UNCHANGED <<clock, calls, pc, args, idx, url, cache_time, result, prev, last200>>

\* `await req.read()` resumes with the body of the 200 response: decoded,
\* stored with expires=cache_time, session.close(), returned
HttpBody(p, body) ==
    /\ stage[p] = "read"
    /\ get_page_body_answered(p, 200, body, cache_time[p])
    /\ UNCHANGED last200

\* the same step, with the time of the stored 200 answer kept in last200
HttpBodySeen(p, body) ==
    /\ stage[p] = "read"
    /\ get_page_body_answered(p, 200, body, cache_time[p])
    /\ last200' = answered(last200, url[p], now)

\* req.read() raised after the 200 head: nothing is stored, nothing catches
\* it, session.close() is not reached
HttpReadError(p) ==
    /\ stage[p] = "read"
    /\ pc' = [pc EXCEPT ![p] = "raised"]
    /\ stage' = [stage EXCEPT ![p] = "-"]
    /\ result' = [result EXCEPT ![p] = Raised("ClientError")]
    /\ reqs' = [reqs EXCEPT ![p] = WithOut(@, "raise")]
    /\ UNCHANGED <<cache, last200, clock, sessions, calls, args, idx, url, cache_time,
                   page_body, prev>>

\* session.get raised: nothing catches it, session.close() is not reached
HttpError(p) ==
    /\ stage[p] = "get"
    /\ pc' = [pc EXCEPT ![p] = "raised"]
    /\ stage' = [stage EXCEPT ![p] = "-"]
    /\ result' = [result EXCEPT ![p] = Raised("ClientError")]
    /\ reqs' = [reqs EXCEPT ![p] = WithOut(@, "raise")]
    /\ UNCHANGED <<cache, last200, clock, sessions, calls, args, idx, url, cache_time,
                   page_body, prev>>

\* a top-level get_page_body(ctx, u, cache_time=ttl)
GetPageBody(p, u, ttl) ==
    /\ Free(p)
    /\ calls < MaxCalls
    /\ calls' = calls + 1
    /\ pc' = [pc EXCEPT ![p] = "fetch"]
    /\ result' = [result EXCEPT ![p] = None]
    /\ prev' = [prev EXCEPT ![p] = reqs[p]]
    /\ get_page_body(p, <<>>, "get_page_body", None, u, ttl)
    /\ UNCHANGED <<clock, args, idx>>

GetPageBodyRet(p) ==
    /\ pc[p] = "fetch"
    /\ stage[p] = "ret"
    /\ pc' = [pc EXCEPT ![p] = "returned"]
    /\ stage' = [stage EXCEPT ![p] = "-"]
    /\ result' = [result EXCEPT ![p] = Returned(page_body[p])]
    /\ reqs' = [reqs EXCEPT ![p] = WithOut(@, "return")]
    /\ UNCHANGED <<cache, last200, clock, sessions, calls, args, idx, url, cache_time,
                   page_body, prev>>

(***************************************************************************)
(* region_helper.                                                          *)
(***************************************************************************)
RegionHelper(p, bt, rg, ex) ==
    /\ Free(p)
    /\ calls < MaxCalls
    /\ calls' = calls + 1
    /\ battletag' = [battletag EXCEPT ![p] = bt]
    /\ region' = [region EXCEPT ![p] = rg]
    /\ extra' = [extra EXCEPT ![p] = ex]
    /\ reg_l' = [reg_l EXCEPT ![p] = candidates(rg)]
    /\ idx' = [idx EXCEPT ![p] = 1]
    /\ pc' = [pc EXCEPT ![p] = "blizz"]
    /\ stage' = [stage EXCEPT ![p] = "call"]
    /\ result' = [result EXCEPT ![p] = None]
    /\ reqs' = [reqs EXCEPT ![p] = <<>>]
    /\ prev' = [prev EXCEPT ![p] = <<>>]
    /\ UNCHANGED <<cache, last200, clock, sessions, url, cache_time, page_body>>

\* mutant of loop_continue: a skipped region is tried once more before moving on
loop_continue_retry(p) ==
    IF Len(SelectSeq(reqs[p], LAMBDA e : e.fn = "get_blizzard_page"
                                         /\ e.reg = reg_l[p][idx[p]])) < 2
    THEN /\ pc' = [pc EXCEPT ![p] = "blizz"]
         /\ stage' = [stage EXCEPT ![p] = "call"]
         /\ UNCHANGED <<idx, result>>
    ELSE IF idx[p] < Len(reg_l[p])
    THEN /\ idx' = [idx EXCEPT ![p] = @ + 1]
         /\ pc' = [pc EXCEPT ![p] = "blizz"]
         /\ stage' = [stage EXCEPT ![p] = "call"]
         /\ UNCHANGED result
    ELSE /\ pc' = [pc EXCEPT ![p] = "returned"]
         /\ stage' = [stage EXCEPT ![p] = "-"]
         /\ result' = [result EXCEPT ![p] = Returned(<<None, None>>)]
         /\ UNCHANGED idx

\* mutant of loop_continue: the loop never leaves the candidate it is at
loop_continue_spin(p) ==
    UNCHANGED <<pc, stage, idx, result>>

\* `continue`: the next candidate, or the else branch of the loop
loop_continue(p) ==
    IF idx[p] < Len(reg_l[p])
    THEN /\ idx' = [idx EXCEPT ![p] = @ + 1]
         /\ pc' = [pc EXCEPT ![p] = "blizz"]
         /\ stage' = [stage EXCEPT ![p] = "call"]
         /\ UNCHANGED result
    ELSE /\ pc' = [pc EXCEPT ![p] = "returned"]
         /\ stage' = [stage EXCEPT ![p] = "-"]
         /\ result' = [result EXCEPT ![p] = Returned(<<None, None>>)]
         /\ UNCHANGED idx

\* an exception leaves region_helper
loop_raise(p, e) ==
    /\ pc' = [pc EXCEPT ![p] = "raised"]
    /\ stage' = [stage EXCEPT ![p] = "-"]
    /\ result' = [result EXCEPT ![p] = Raised(e)]
    /\ UNCHANGED idx

\* get_blizzard_page(ctx, battletag, reg): the URL and the fetch
GetBlizzardPage(p) ==
    /\ pc[p] = "blizz"
    /\ stage[p] = "call"
    /\ get_page_body(p, reqs[p], "get_blizzard_page", reg(p),
                     B_PAGE_URL(reg(p), Replace(battletag[p])), DefaultCacheTime)
    /\ UNCHANGED <<clock, calls, pc, args, idx, result, prev>>

\* mutant of GetBlizzardPageRet: the `continue` after an absent page is missing
GetBlizzardPageRet_noskip(p) ==
    /\ pc[p] = "blizz"
    /\ stage[p] = "ret"
    /\ IF page_body[p] # None
       THEN /\ stage' = [stage EXCEPT ![p] = "parse"]
            /\ UNCHANGED <<pc, reqs>>
       ELSE /\ pc' = [pc EXCEPT ![p] = "update"]
            /\ stage' = [stage EXCEPT ![p] = "call"]
            /\ reqs' = [reqs EXCEPT ![p] = WithOut(@, "None")]
    /\ UNCHANGED <<cache, last200, clock, sessions, calls, args, idx, url, cache_time,
                   page_body, result, prev>>

\* get_blizzard_page after the fetch: None, or the parse is handed to the executor
GetBlizzardPageRet(p) ==
    /\ pc[p] = "blizz"
    /\ stage[p] = "ret"
    /\ IF page_body[p] # None
       THEN /\ stage' = [stage EXCEPT ![p] = "parse"]
            /\ UNCHANGED <<pc, idx, result, reqs>>
       ELSE /\ loop_continue(p)
            /\ reqs' = [reqs EXCEPT ![p] = WithOut(@, "None")]
    /\ UNCHANGED <<cache, last200, clock, sessions, calls, args, url, cache_time,
                   page_body, prev>>

\* the parse of the Blizzard page is done: blizz is a document
GetBlizzardPageParsed(p) ==
    /\ pc[p] = "blizz"
    /\ stage[p] = "parse"
    /\ LET parsed == parse_page(page_body[p]) IN
       IF IsRaised(parsed)
       THEN /\ loop_raise(p, parsed[2])
            /\ reqs' = [reqs EXCEPT ![p] = WithOut(@, "raise")]
       ELSE /\ pc' = [pc EXCEPT ![p] = "update"]
            /\ stage' = [stage EXCEPT ![p] = "call"]
            /\ reqs' = [reqs EXCEPT ![p] = WithOut(@, "Element")]
            /\ UNCHANGED <<idx, result>>
    /\ UNCHANGED <<cache, last200, clock, sessions, calls, args, url, cache_time,
                   page_body, prev>>

\* mutant of UpdateUser: the update endpoint fetched with cache_time=0
UpdateUser_nocache(p) ==
    /\ pc[p] = "update"
    /\ stage[p] = "call"
    /\ get_page_body(p, reqs[p], "update_user", reg(p),
                     MO_UPDATE_URL(reg(p), battletag[p]), 0)
    /\ UNCHANGED <<clock, calls, pc, args, idx, result, prev>>

\* update_user(ctx, battletag, reg): the URL and the fetch
UpdateUser(p) ==
    /\ pc[p] = "update"
    /\ stage[p] = "call"
    /\ get_page_body(p, reqs[p], "update_user", reg(p),
                     MO_UPDATE_URL(reg(p), battletag[p]), DefaultCacheTime)
    /\ UNCHANGED <<clock, calls, pc, args, idx, result, prev>>

\* mutant of UpdateUserRet: the `continue` after a failed update is missing
UpdateUserRet_noskip(p) ==
    /\ pc[p] = "update"
    /\ stage[p] = "ret"
    /\ LET updated == update_user(page_body[p]) IN
       IF IsRaised(updated)
       THEN /\ loop_raise(p, updated[2])
            /\ reqs' = [reqs EXCEPT ![p] = WithOut(@, "raise")]
       ELSE /\ pc' = [pc EXCEPT ![p] = "page"]
            /\ stage' = [stage EXCEPT ![p] = "call"]
            /\ reqs' = [reqs EXCEPT ![p] = WithOut(@, IF updated[2] THEN "True" ELSE "False")]
            /\ UNCHANGED <<idx, result>>
    /\ UNCHANGED <<cache, last200, clock, sessions, calls, args, url, cache_time,
                   page_body, prev>>

\* update_user after the fetch, and `if not updated: continue`
UpdateUserRet(p) ==
    /\ pc[p] = "update"
    /\ stage[p] = "ret"
    /\ LET updated == update_user(page_body[p]) IN
       IF IsRaised(updated)
       THEN /\ loop_raise(p, updated[2])
            /\ reqs' = [reqs EXCEPT ![p] = WithOut(@, "raise")]
       ELSE IF ~updated[2]
       THEN /\ loop_continue(p)
            /\ reqs' = [reqs EXCEPT ![p] = WithOut(@, "False")]
       ELSE /\ pc' = [pc EXCEPT ![p] = "page"]
            /\ stage' = [stage EXCEPT ![p] = "call"]
            /\ reqs' = [reqs EXCEPT ![p] = WithOut(@, "True")]
            /\ UNCHANGED <<idx, result>>
    /\ UNCHANGED <<cache, last200, clock, sessions, calls, args, url, cache_time,
                   page_body, prev>>

\* get_user_page(ctx, battletag, reg, extra): the URL and the fetch
GetUserPage(p) ==
    /\ pc[p] = "page"
    /\ stage[p] = "call"
    /\ get_page_body(p, reqs[p], "get_user_page", reg(p),
                     MO_PAGE_URL(reg(p), Replace(battletag[p])) \o extra[p],
                     DefaultCacheTime)
    /\ UNCHANGED <<clock, calls, pc, args, idx, result, prev>>

\* get_user_page after the fetch: the body, whatever it is, goes to the executor
GetUserPageRet(p) ==
    /\ pc[p] = "page"
    /\ stage[p] = "ret"
    /\ stage' = [stage EXCEPT ![p] = "parse"]
    /\ UNCHANGED <<cache, last200, clock, sessions, calls, pc, args, idx, url, cache_time,
                   page_body, result, reqs, prev>>

\* the parse of the user page is done: `return page, reg`, or its exception
GetUserPageParsed(p) ==
    /\ pc[p] = "page"
    /\ stage[p] = "parse"
    /\ LET parsed == parse_page(page_body[p]) IN
       IF IsRaised(parsed)
       THEN /\ loop_raise(p, parsed[2])
            /\ reqs' = [reqs EXCEPT ![p] = WithOut(@, "raise")]
       ELSE /\ pc' = [pc EXCEPT ![p] = "returned"]
            /\ stage' = [stage EXCEPT ![p] = "-"]
            /\ result' = [result EXCEPT ![p] = Returned(<<parsed[2], reg(p)>>)]
            /\ reqs' = [reqs EXCEPT ![p] = WithOut(@, "Element")]
            /\ UNCHANGED idx
    /\ UNCHANGED <<cache, last200, clock, sessions, calls, args, url, cache_time,
                   page_body, prev>>

(***************************************************************************)
(* The clock; the store drops what has expired.                            *)
(***************************************************************************)
Tick(d) ==
    /\ ticks < MaxTicks
    /\ ticks' = ticks + 1
    /\ now' = now + d
    /\ cache' = cache_purge(cache, now + d)
    /\ UNCHANGED <<last200, sessions, calls, pc, stage, args, idx, url, cache_time,
                   page_body, result, reqs, prev>>

(***************************************************************************)
(* Spec: one caller resolving battletags, one call after the other.        *)
(***************************************************************************)
Next ==
    \/ \E bt \in Battletags, rg \in RegionArgs : RegionHelper(1, bt, rg, <<>>)
    \/ GetBlizzardPage(1)
    \/ GetBlizzardPageRet(1)
    \/ GetBlizzardPageParsed(1)
    \/ UpdateUser(1)
    \/ UpdateUserRet(1)
    \/ GetUserPage(1)
    \/ GetUserPageRet(1)
    \/ GetUserPageParsed(1)
    \/ \E st \in Statuses : HttpHead(1, st)
    \/ \E b \in ResponseBodies(url[1]) : HttpRelease(1, b)
    \/ HttpReleaseError(1)
    \/ \E b \in ResponseBodies(url[1]) : HttpBody(1, b)
    \/ HttpReadError(1)
    \/ HttpError(1)
    \/ Tick(DefaultCacheTime)

Spec == Init /\ [][Next]_vars

(***************************************************************************)
(* SpecFetch: one caller fetching URLs with get_page_body, one call after  *)
(* the other, with every TTL.                                              *)
(***************************************************************************)
NextFetch ==
    \/ \E u \in FetchURLs, ttl \in TTLs : GetPageBody(1, u, ttl)
    \/ GetPageBodyRet(1)
    \/ \E st \in Statuses : HttpHead(1, st)
    \/ \E b \in ResponseBodies(url[1]) : HttpRelease(1, b)
    \/ HttpReleaseError(1)
    \/ \E b \in ResponseBodies(url[1]) : HttpBody(1, b)
    \/ HttpReadError(1)
    \/ HttpError(1)
    \/ \E d \in {1, DefaultCacheTime} : Tick(d)

SpecFetch == Init /\ [][NextFetch]_vars

(***************************************************************************)
(* SpecRace: two callers of get_page_body, interleaved at their awaits.    *)
(***************************************************************************)
RaceURLs == { MO_UPDATE_URL(Str("eu"), <<"F", "o", "o", "-", "1", "2", "3", "4">>) }
RaceTTLs == {ShortTTL, DefaultCacheTime}
RaceBodies == {JSON_SUCCESS, JSON_RATE_LIMITED}

NextRace ==
    \/ \E p \in Procs, u \in RaceURLs, ttl \in RaceTTLs : GetPageBody(p, u, ttl)
    \/ \E p \in Procs : GetPageBodyRet(p)
    \/ \E p \in Procs, st \in Statuses : HttpHead(p, st)
    \/ \E p \in Procs, b \in RaceBodies : HttpRelease(p, b)
    \/ \E p \in Procs : HttpReleaseError(p)
    \/ \E p \in Procs, b \in RaceBodies : HttpBody(p, b)
    \/ \E p \in Procs : HttpReadError(p)
    \/ \E p \in Procs : HttpError(p)
    \/ Tick(1)

SpecRace == Init /\ [][NextRace]_vars

(***************************************************************************)
(* SpecRepeat: one caller resolving the same battletag again and again,    *)
(* with the history of the 200 answers kept.                               *)
(***************************************************************************)
RepeatRegions == {Str("eu")}

NextRepeat ==
    \/ \E bt \in Battletags, rg \in RepeatRegions : RegionHelper(1, bt, rg, <<>>)
    \/ GetBlizzardPage(1)
    \/ GetBlizzardPageRet(1)
    \/ GetBlizzardPageParsed(1)
    \/ UpdateUser(1)
    \/ UpdateUserRet(1)
    \/ GetUserPage(1)
    \/ GetUserPageRet(1)
    \/ GetUserPageParsed(1)
    \/ \E st \in Statuses : HttpHead(1, st)
    \/ \E b \in ResponseBodies(url[1]) : HttpRelease(1, b)
    \/ HttpReleaseError(1)
    \/ \E b \in ResponseBodies(url[1]) : HttpBodySeen(1, b)
    \/ HttpReadError(1)
    \/ HttpError(1)
    \/ \E d \in {DefaultCacheTime - 1, DefaultCacheTime} : Tick(d)

SpecRepeat == Init /\ [][NextRepeat]_vars

(***************************************************************************)
(* SpecLive: one caller resolving battletags, where every step of a call   *)
(* that can be taken is taken in the end: the event loop resumes the       *)
(* coroutine, the executor finishes a parse, and the transport answers or  *)
(* fails.  A new call is not forced.                                       *)
(***************************************************************************)
LiveRegions == {None, Str("eu")}

Step ==
    \/ GetBlizzardPage(1)
    \/ GetBlizzardPageRet(1)
    \/ GetBlizzardPageParsed(1)
    \/ UpdateUser(1)
    \/ UpdateUserRet(1)
    \/ GetUserPage(1)
    \/ GetUserPageRet(1)
    \/ GetUserPageParsed(1)
    \/ \E st \in Statuses : HttpHead(1, st)
    \/ \E b \in ResponseBodies(url[1]) : HttpRelease(1, b)
    \/ HttpReleaseError(1)
    \/ \E b \in ResponseBodies(url[1]) : HttpBody(1, b)
    \/ HttpReadError(1)
    \/ HttpError(1)

NextLive ==
    \/ \E bt \in Battletags, rg \in LiveRegions, ex \in Extras : RegionHelper(1, bt, rg, ex)
    \/ Step

SpecLive == Init /\ [][NextLive]_vars /\ WF_vars(Step)

(***************************************************************************)
(* Properties.  Log(p) is the log of the get_page_body calls of p's        *)
(* current region_helper call; an entry's out is "pending" until the       *)
(* caller has acted on what the call returned.                             *)
(***************************************************************************)
Log(p) == reqs[p]
InResolve(p) == reg_l[p] # <<>> /\ pc[p] # "fetch" /\ pc[p] # "idle"
Probes(log) == SelectSeq(log, LAMBDA e : e.fn = "get_blizzard_page")
Updates(log) == SelectSeq(log, LAMBDA e : e.fn = "update_user")
Fulls(log) == SelectSeq(log, LAMBDA e : e.fn = "get_user_page")
Passed(e) == e.fn = "update_user" /\ e.out = "True"

\* C1: with no region the existence probes go to eu, then us, then kr, one
\* request at a time, and after a region has passed the probe and the update
\* every later request is for that same region.
C1_ProbeOrder ==
    \A p \in Procs : (InResolve(p) /\ region[p] = None) =>
        /\ Len(Probes(Log(p))) <= 3
        /\ \A k \in 1..Len(Probes(Log(p))) :
              Probes(Log(p))[k].reg = <<Str("eu"), Str("us"), Str("kr")>>[k]
        /\ \A k \in 1..(Len(Log(p)) - 1) : Log(p)[k].out # "pending"
        /\ \A k \in 1..Len(Log(p)) : Passed(Log(p)[k]) =>
              \A j \in (k + 1)..Len(Log(p)) :
                  Log(p)[j].fn = "get_user_page" /\ Log(p)[j].reg = Log(p)[k].reg

\* C1 witness: a call with no region that skipped eu and us and returned kr
C1_Witness ==
    /\ pc[1] = "returned"
    /\ InResolve(1)
    /\ region[1] = None
    /\ result[1][2][2] = Str("kr")
    /\ Len(Probes(Log(1))) = 3

\* C2: with an explicit region r every request of the call targets r
C2_ExplicitRegionOnly ==
    \A p \in Procs : (InResolve(p) /\ region[p] # None) =>
        \A k \in 1..Len(Log(p)) :
            /\ Log(p)[k].reg = region[p]
            /\ Log(p)[k].url[3] = region[p][2]

\* C2 witness: a call with region us that made all three requests
C2_Witness ==
    /\ pc[1] = "returned"
    /\ InResolve(1)
    /\ region[1] = Str("us")
    /\ Len(Log(1)) = 3

\* C3: when the probe of each of eu, us, kr came back absent, the call has
\* returned (None, None) after exactly three probes, no update and no full fetch
C3_AllProbesAbsent ==
    \A p \in Procs :
        (/\ InResolve(p)
         /\ region[p] = None
         /\ \A r \in {Str("eu"), Str("us"), Str("kr")} :
               \E k \in 1..Len(Log(p)) :
                   /\ Log(p)[k].fn = "get_blizzard_page"
                   /\ Log(p)[k].reg = r
                   /\ Log(p)[k].body = None
                   /\ Log(p)[k].out # "pending")
        => /\ pc[p] = "returned"
           /\ result[p] = Returned(<<None, None>>)
           /\ Len(Probes(Log(p))) = 3
           /\ Len(Updates(Log(p))) = 0
           /\ Len(Fulls(Log(p))) = 0

\* C3 witness: three absent probes, all answered by the network
C3_Witness ==
    /\ pc[1] = "returned"
    /\ InResolve(1)
    /\ region[1] = None
    /\ Len(Log(1)) = 3
    /\ \A k \in 1..3 : Log(1)[k].body = None /\ Log(1)[k].net

\* the candidate after the one entry e was for, when there is one
HasNext(p, e) == \E k \in 1..(Len(reg_l[p]) - 1) : reg_l[p][k] = e.reg
NextOf(p, e) == reg_l[p][(CHOOSE k \in 1..(Len(reg_l[p]) - 1) : reg_l[p][k] = e.reg) + 1]

\* C4: after the update endpoint answered the exact not-found message for a
\* region, the call goes on with the probe of the next candidate (or returns
\* (None, None) after the last one) and makes no full fetch for that region
C4_NotFoundSkips ==
    \A p \in Procs : InResolve(p) =>
        \A k \in 1..Len(Log(p)) :
            (/\ Log(p)[k].fn = "update_user"
             /\ Log(p)[k].body = Str(JSON_NOT_FOUND)
             /\ Log(p)[k].out # "pending")
            => /\ Log(p)[k].out = "False"
               /\ \A j \in 1..Len(Log(p)) :
                     ~(Log(p)[j].fn = "get_user_page" /\ Log(p)[j].reg = Log(p)[k].reg)
               /\ k < Len(Log(p)) =>
                     /\ Log(p)[k + 1].fn = "get_blizzard_page"
                     /\ HasNext(p, Log(p)[k])
                     /\ Log(p)[k + 1].reg = NextOf(p, Log(p)[k])
               /\ k = Len(Log(p)) =>
                     IF HasNext(p, Log(p)[k])
                     THEN pc[p] = "blizz" /\ stage[p] = "call"
                          /\ reg(p) = NextOf(p, Log(p)[k])
                     ELSE pc[p] = "returned" /\ result[p] = Returned(<<None, None>>)

\* C4 witness: eu answered not-found and the call returned the page of us
C4_Witness ==
    /\ pc[1] = "returned"
    /\ InResolve(1)
    /\ Len(Log(1)) = 5
    /\ Log(1)[2].fn = "update_user"
    /\ Log(1)[2].body = Str(JSON_NOT_FOUND)
    /\ Log(1)[2].reg = Str("eu")
    /\ result[1][2][2] = Str("us")

\* C5: after the update endpoint answered an error with another message for a
\* region, the only request that follows is the full fetch for that region
C5_OtherErrorProceeds ==
    \A p \in Procs : InResolve(p) =>
        \A k \in 1..Len(Log(p)) :
            (/\ Log(p)[k].fn = "update_user"
             /\ Log(p)[k].body = Str(JSON_RATE_LIMITED)
             /\ Log(p)[k].out # "pending")
            => /\ Log(p)[k].out = "True"
               /\ k = Len(Log(p)) =>
                     pc[p] = "page" /\ stage[p] = "call" /\ reg(p) = Log(p)[k].reg
               /\ k < Len(Log(p)) =>
                     /\ Len(Log(p)) = k + 1
                     /\ Log(p)[k + 1].fn = "get_user_page"
                     /\ Log(p)[k + 1].reg = Log(p)[k].reg

\* C5 witness: "rate limited" for us, then the full page of us returned
C5_Witness ==
    /\ pc[1] = "returned"
    /\ InResolve(1)
    /\ Len(Log(1)) >= 3
    /\ Log(1)[Len(Log(1)) - 1].fn = "update_user"
    /\ Log(1)[Len(Log(1)) - 1].body = Str(JSON_RATE_LIMITED)
    /\ Log(1)[Len(Log(1))].fn = "get_user_page"
    /\ result[1][2][2] = Str("us")

\* two top-level get_page_body calls in a row: Fetched(p) holds while the
\* second is running or has returned; First(p) and Second(p) are their entries
Fetched(p) ==
    /\ prev[p] # <<>>
    /\ reqs[p] # <<>>
    /\ prev[p][1].fn = "get_page_body"
    /\ reqs[p][1].fn = "get_page_body"
First(p) == prev[p][1]
Second(p) == reqs[p][1]

\* C6: for a TTL > 0, when the first of two fetches of a URL got status 200,
\* so that it returned the body of the answer, and the second starts less than
\* TTL seconds after the first, the second issues no GET and returns the
\* identical body: one GET in total
C6_SecondFetchFromCache ==
    \A p \in Procs :
        (/\ Fetched(p)
         /\ First(p).url = Second(p).url
         /\ First(p).ttl > 0
         /\ Second(p).ttl = First(p).ttl
         /\ First(p).status = 200
         /\ First(p).out = "return"
         /\ Second(p).at - First(p).at < First(p).ttl)
        => /\ First(p).net
           /\ ~Second(p).net
           /\ Second(p).status = 0
           /\ Second(p).body = First(p).body
           /\ pc[p] = "returned" => result[p] = Returned(First(p).body)

\* C6 witness: a second fetch one second after the first, TTL ShortTTL, returned
C6_Witness ==
    /\ Fetched(1)
    /\ pc[1] = "returned"
    /\ First(1).url = Second(1).url
    /\ First(1).ttl = ShortTTL
    /\ Second(1).ttl = ShortTTL
    /\ First(1).status = 200
    /\ First(1).out = "return"
    /\ Second(1).at = First(1).at + 1
    /\ result[1] = Returned(Str(JSON_SUCCESS))

\* C7: for every TTL, a fetch answered with a status other than 200 returns
\* None and stores nothing, whatever becomes of the release of the response,
\* and the next fetch of that URL issues a GET
C7_Non200NotCached ==
    \A p \in Procs : (reqs[p] # <<>> /\ reqs[p][1].fn = "get_page_body") =>
        /\ (Second(p).status \notin {0, 200} /\ stage[p] # "release") =>
              /\ Second(p).body = None
              /\ pc[p] # "raised"
              /\ pc[p] = "returned" => result[p] = Returned(None)
              /\ ~cache_live(cache, Second(p).url, now)
              /\ Second(p).url \in DOMAIN cache =>
                    cache[Second(p).url].expires_at <= Second(p).at
        /\ (/\ Fetched(p)
            /\ First(p).url = Second(p).url
            /\ First(p).status \notin {0, 200})
           => Second(p).net

\* C8: every URL a region_helper call requests carries the battletag with each
\* "#" replaced by "-", and no "#"
C8_EveryUrlDashed ==
    \A p \in Procs : InResolve(p) =>
        \A k \in 1..Len(Log(p)) :
            /\ SubSeq(Log(p)[k].url, 5, 4 + Len(battletag[p])) = Replace(battletag[p])
            /\ \A j \in 1..Len(Log(p)[k].url) : Log(p)[k].url[j] # "#"

\* C9: when the full-profile fetch of a region came back absent, the call
\* returns (None, that region) and makes no further request
C9_AbsentFullPageReturned ==
    \A p \in Procs : InResolve(p) =>
        \A k \in 1..Len(Log(p)) :
            (/\ Log(p)[k].fn = "get_user_page"
             /\ Log(p)[k].body = None
             /\ Log(p)[k].out # "pending")
            => /\ k = Len(Log(p))
               /\ pc[p] = "returned"
               /\ result[p] = Returned(<<None, Log(p)[k].reg>>)

\* C10: when the fetch of the update endpoint came back absent, or with a body
\* that is no JSON, the call has raised: the region was not skipped, nothing
\* was returned and no request follows
C10_UpdateFailureIsFatal ==
    \A p \in Procs : InResolve(p) =>
        \A k \in 1..Len(Log(p)) :
            (/\ Log(p)[k].fn = "update_user"
             /\ Log(p)[k].body \in {None, Str(HTML_PAGE)}
             /\ Log(p)[k].out # "pending")
            => /\ Log(p)[k].out = "raise"
               /\ k = Len(Log(p))
               /\ pc[p] = "raised"
               /\ IsRaised(result[p])
               /\ result[p][2] \in {"TypeError", "ValueError"}

\* C10 witness: eu skipped at the probe, then the update of us answered 404
C10_Witness ==
    /\ pc[1] = "raised"
    /\ InResolve(1)
    /\ region[1] = None
    /\ Len(Log(1)) = 3
    /\ Log(1)[3].fn = "update_user"
    /\ Log(1)[3].status = 404
    /\ Log(1)[3].body = None
    /\ result[1] = Raised("TypeError")

\* an entry whose GET raised a transport error, in session.get, in
\* req.read() or in the release: issued, ended, and no result came back
GetRaised(e) == e.net /\ e.body = Pending /\ e.out # "pending"

\* C11: a GET that raised a transport error is not fatal: get_page_body
\* returned None for it, the call did not end in an error, and when it was an
\* existence probe the region was skipped
C11_TransportErrorIsAbsent ==
    \A p \in Procs : \A k \in 1..Len(reqs[p]) :
        GetRaised(reqs[p][k]) =>
            /\ reqs[p][k].body = None
            /\ pc[p] # "raised"
            /\ reqs[p][k].fn = "get_blizzard_page" => reqs[p][k].out = "None"

\* C12: no parse task is submitted for an absent body, in get_blizzard_page
\* and in get_user_page alike
C12_NoParseOfAbsent ==
    \A p \in Procs : stage[p] = "parse" => page_body[p] # None

\* C13: for a body that is valid JSON, update_user answers NotFound (False)
\* exactly for the not-found literal and Updated (True) for everything else,
\* objects without a status or a message included; it never fails
C13_UpdateResult ==
    \A p \in Procs : \A k \in 1..Len(reqs[p]) :
        (/\ reqs[p][k].fn = "update_user"
         /\ IsStr(reqs[p][k].body)
         /\ reqs[p][k].body[2] # HTML_PAGE
         /\ reqs[p][k].out # "pending")
        => reqs[p][k].out =
              IF reqs[p][k].body[2] = JSON_NOT_FOUND THEN "False" ELSE "True"

\* C14 as claimed: every update_user call issues a GET of the update endpoint
C14_UpdateAlwaysContacts ==
    \A p \in Procs : \A k \in 1..Len(reqs[p]) :
        reqs[p][k].fn = "update_user" => reqs[p][k].net

\* C14 as amended: an update_user call issues a GET of the update endpoint
\* unless the body of a 200 answer to a GET of that URL was stored less than
\* 300 seconds before the call; then it is answered from the cache
C14_UpdateContactsUnlessCached ==
    \A p \in Procs : \A k \in 1..Len(reqs[p]) :
        reqs[p][k].fn = "update_user" =>
            (reqs[p][k].net <=>
                ~(/\ reqs[p][k].since >= 0
                  /\ reqs[p][k].at - reqs[p][k].since < 300))

\* C14 witness: a second resolve 299 seconds after the update was answered 200
\* has its update answered from the cache and returns
C14_Witness ==
    /\ pc[1] = "returned"
    /\ InResolve(1)
    /\ Len(Log(1)) = 3
    /\ Log(1)[2].fn = "update_user"
    /\ Log(1)[2].since >= 0
    /\ Log(1)[2].at - Log(1)[2].since = 299
    /\ ~Log(1)[2].net

\* C15: once the existence-check page of a region was answered 200, every
\* later probe of it is served from the cache, whatever time has passed
C15_ProbeCachedForever ==
    \A p \in Procs : \A k \in 1..Len(reqs[p]) :
        (reqs[p][k].fn = "get_blizzard_page" /\ reqs[p][k].since >= 0)
        => ~reqs[p][k].net

\* C16: nothing guards the cache: a call that has read the body of its 200
\* answer overwrites whatever entry the URL has, so after two racing fetches
\* the entry is the one of the call that stored last
C16_LastWriterWins ==
    [][\A p \in Procs :
          (stage[p] = "read" /\ stage'[p] = "ret") =>
              /\ url[p] \in DOMAIN cache'
              /\ cache'[url[p]].value = page_body'[p]
              /\ cache'[url[p]].expires_at = now + cache_time[p]]_vars

\* C16 witness: two fetches of one URL both missed and both issued a GET, both
\* were answered 200 with different bodies, and the entry holds the body of 2
C16_Witness ==
    /\ pc[1] = "returned"
    /\ pc[2] = "returned"
    /\ reqs[1][1].url = reqs[2][1].url
    /\ reqs[1][1].at = reqs[2][1].at
    /\ reqs[1][1].net
    /\ reqs[2][1].net
    /\ reqs[1][1].status = 200
    /\ reqs[2][1].status = 200
    /\ reqs[1][1].body # reqs[2][1].body
    /\ reqs[1][1].url \in DOMAIN cache
    /\ cache[reqs[1][1].url].value = reqs[2][1].body

\* the entries of a log made by function fn for region r
Of(log, fn, r) == SelectSeq(log, LAMBDA e : e.fn = fn /\ e.reg = r)

\* C17: in one resolve call a region gets at most one probe, one update and one
\* full fetch; an update entry comes after the region's probe returned a
\* document, and a full fetch after the region's update returned True
C17_NoRetry ==
    \A p \in Procs : InResolve(p) =>
        /\ \A k \in 1..Len(Log(p)) : \A j \in 1..Len(Log(p)) :
              (Log(p)[k].fn = Log(p)[j].fn /\ Log(p)[k].reg = Log(p)[j].reg) => k = j
        /\ \A k \in 1..Len(Log(p)) :
              /\ Log(p)[k].fn = "update_user" =>
                    \E j \in 1..(k - 1) : /\ Log(p)[j].fn = "get_blizzard_page"
                                          /\ Log(p)[j].reg = Log(p)[k].reg
                                          /\ Log(p)[j].out = "Element"
              /\ Log(p)[k].fn = "get_user_page" =>
                    \E j \in 1..(k - 1) : /\ Log(p)[j].fn = "update_user"
                                          /\ Log(p)[j].reg = Log(p)[k].reg
                                          /\ Log(p)[j].out = "True"

\* C17 witness: a call with no region skipped eu at the probe and us at the
\* update, and made all three requests for kr
C17_Witness ==
    /\ pc[1] = "returned"
    /\ InResolve(1)
    /\ region[1] = None
    /\ Len(Log(1)) = 6
    /\ Len(Of(Log(1), "get_blizzard_page", Str("eu"))) = 1
    /\ Len(Of(Log(1), "update_user", Str("eu"))) = 0
    /\ Len(Of(Log(1), "update_user", Str("us"))) = 1
    /\ Len(Of(Log(1), "get_user_page", Str("us"))) = 0
    /\ Len(Of(Log(1), "get_user_page", Str("kr"))) = 1

\* region r was skipped: its probe returned None or its update returned False
Skipped(log, r) ==
    \/ \E k \in 1..Len(log) : /\ log[k].fn = "get_blizzard_page"
                              /\ log[k].reg = r
                              /\ log[k].out = "None"
    \/ \E k \in 1..Len(log) : /\ log[k].fn = "update_user"
                              /\ log[k].reg = r
                              /\ log[k].out = "False"

\* region r passed: its probe returned a document and its update returned True
Won(log, r) ==
    /\ \E k \in 1..Len(log) : /\ log[k].fn = "get_blizzard_page"
                              /\ log[k].reg = r
                              /\ log[k].out = "Element"
    /\ \E k \in 1..Len(log) : /\ log[k].fn = "update_user"
                              /\ log[k].reg = r
                              /\ log[k].out = "True"

\* C18: a returned region is the first candidate, in the order eu, us, kr or
\* the explicit region alone, that passed the probe and the update, every
\* candidate before it was skipped at one of the two; and when (None, None)
\* is returned every candidate was skipped
C18_FirstSuccessWins ==
    \A p \in Procs : (InResolve(p) /\ pc[p] = "returned") =>
        LET order == IF region[p] = None
                     THEN <<Str("eu"), Str("us"), Str("kr")>>
                     ELSE <<region[p]>>
            r == result[p][2][2]
        IN IF r # None
           THEN \E k \in 1..Len(order) :
                    /\ order[k] = r
                    /\ Won(Log(p), r)
                    /\ \A j \in 1..(k - 1) :
                          Skipped(Log(p), order[j]) /\ ~Won(Log(p), order[j])
           ELSE /\ result[p] = Returned(<<None, None>>)
                /\ \A j \in 1..Len(order) : Skipped(Log(p), order[j])

\* C18 witness: with no region, eu was skipped at the update and us returned
C18_Witness ==
    /\ pc[1] = "returned"
    /\ InResolve(1)
    /\ region[1] = None
    /\ result[1][2][2] = Str("us")
    /\ Len(Log(1)) = 5
    /\ Log(1)[2].fn = "update_user"
    /\ Log(1)[2].out = "False"

\* C19: a resolve call that has started finishes, by returning or by raising,
\* and at no time has it begun more iterations than it has candidates: three
\* with no region, one with an explicit region
C19_Terminates ==
    /\ [](\A p \in Procs : InResolve(p) =>
              /\ idx[p] <= Len(reg_l[p])
              /\ Len(Probes(Log(p))) <= idx[p]
              /\ Len(reg_l[p]) = IF region[p] = None THEN 3 ELSE 1)
    /\ \A p \in Procs : (pc[p] \in {"blizz", "update", "page"})
                            ~> (pc[p] \in {"returned", "raised"})

\* C19 witness: a call with no region has finished in its third iteration
C19_Witness ==
    /\ pc[1] = "returned"
    /\ InResolve(1)
    /\ region[1] = None
    /\ idx[1] = 3
    /\ Len(Probes(Log(1))) = 3

\* C20: when no get_page_body call is awaiting its GET, the body of its
\* answer or the release of it, no session is open, whichever way the calls so far ended
C20_SessionsClosed ==
    (\A p \in Procs : stage[p] \notin {"get", "read", "release"}) => sessions = 0

====
